---- MODULE Spec2Model ----
(***************************************************************************)
(* Closed-loop depth simulation of uuv_mission/dynamic.py:                 *)
(* Submarine (plant), Control (PD controller), Mission, Trajectory and     *)
(* ClosedLoop.simulate, stepped statement by statement.                    *)
(*                                                                         *)
(* Numbers.  The program computes in IEEE-754 doubles; the model computes  *)
(* in exact rationals <<n, d>> (d > 0, lowest terms), so 0.15, 0.6 and 0.1 *)
(* are 3/20, 3/5 and 1/10.  Rounding of doubles is not modelled.           *)
(***************************************************************************)
EXTENDS Integers, Sequences, FiniteSets, TLC

(***************************************************************************)
(* Bounds of the model.                                                    *)
(***************************************************************************)
\* longest mission (len(mission.reference)) a caller passes
MaxT == 3
\* direct calls of plant operations a caller makes outside simulate
MaxDirect == 1

(***************************************************************************)
(* Rational arithmetic standing for Python float arithmetic.               *)
(***************************************************************************)
Abs(n) == IF n < 0 THEN -n ELSE n

\* the arithmetic is written as functions, whose arguments are values, and
\* the operators below apply them
Q == Int \X Int

GCDOf[a \in Nat, b \in Nat] == IF b = 0 THEN a ELSE GCDOf[b, a % b]

GCD(a, b) == GCDOf[a, b]

RatOf[n \in Int, d \in Int] ==
    LET g == GCD(Abs(n), Abs(d))
        s == IF d < 0 THEN -1 ELSE 1
    IN  <<(s * n) \div g, (s * d) \div g>>

\* n/d in lowest terms with a positive denominator (d # 0)
Rat(n, d) == RatOf[n, d]

R(n) == <<n, 1>>

RAddOf[a \in Q, b \in Q] ==
    LET g == GCD(a[2], b[2])
    IN  Rat(a[1] * (b[2] \div g) + b[1] * (a[2] \div g), (a[2] \div g) * b[2])

RAdd(a, b) == RAddOf[a, b]

RNeg(a) == <<-a[1], a[2]>>

RSub(a, b) == RAdd(a, RNeg(b))

RMulOf[a \in Q, b \in Q] ==
    LET g1 == GCD(Abs(a[1]), b[2])
        g2 == GCD(Abs(b[1]), a[2])
    IN  Rat((a[1] \div g1) * (b[1] \div g2), (a[2] \div g2) * (b[2] \div g1))

RMul(a, b) == RMulOf[a, b]

\* a / b for b # 0 (Python raises ZeroDivisionError for b = 0)
RDiv(a, b) == RMul(a, Rat(b[2], b[1]))

Zero == R(0)

(***************************************************************************)
(* Inputs a caller draws.  A caller loads one mission and calls simulate   *)
(* on one ClosedLoop, then a second time: "none", "one", "two" calls made. *)
(* The exact fractions of a third run exceed the integers of the checker.  *)
(***************************************************************************)
\* depth setpoints of a reference
RefVals == {R(0), R(1)}
\* disturbance samples
DistVals == {R(0), R(1)}
\* actions of a direct transition call
ActVals == {Rat(1, 2)}

SeqsOf(S, n) == [1..n -> S]

\* a constant sequence, as np.zeros(n) or n * [v]
Const(v, n) == [i \in 1..n |-> v]

\* the dataclass constructor Mission(reference, cave_height, cave_depth): it
\* stores what it is given
Mission(reference, cave_height, cave_depth) ==
    [reference |-> reference, cave_height |-> cave_height,
     cave_depth |-> cave_depth]

\* missions a caller can construct whose cave_height is as long as the
\* reference or an entry shorter
MissionsAnyShape ==
    UNION {{Mission(r, Const(R(2), h), Const(R(-2), n)) :
                r \in SeqsOf(RefVals, n), h \in {n - 1, n}}
           : n \in 1..MaxT}

\* Mission(reference, cave_height, cave_depth) with three sequences of length n
Missions ==
    UNION {{[reference |-> r, cave_height |-> Const(R(2), n),
             cave_depth |-> Const(R(-2), n)] : r \in SeqsOf(RefVals, n)}
           : n \in 1..MaxT}

\* disturbance sequences offered with a mission of length n: every sequence
\* of n samples, one that is a sample short, and some that are a sample long
Disturbances(n) ==
    SeqsOf(DistVals, n) \cup {Const(Zero, n - 1)}
        \cup {Append(Const(Zero, n), v) : v \in DistVals}

\* a local or attribute not assigned yet
NoValue == <<>>

\* no object: no call made, nothing returned
None == [kind |-> "none"]

VARIABLES
    plant,          \* the Submarine: constants, position and velocity
    control,        \* the Control: gains and error state
    pc,             \* position in ClosedLoop.simulate, "idle" outside a call
    mission,        \* the Mission the caller loaded and passes to simulate
    disturbances,   \* argument of the running simulate call
    T,              \* local T of simulate
    t,              \* loop index of simulate
    positions,      \* local positions array of simulate
    actions,        \* local actions array of simulate
    observation_t,  \* local observation_t of simulate
    result,         \* what the last simulate call gave its caller
    trace,          \* statements the running call has executed, in order
    entry,          \* plant and control as the running call found them
    first,          \* the caller's record of its previous simulate call
    runs,           \* simulate calls made so far: "none", "one", "two"
    direct          \* direct plant calls made so far

vars == <<plant, control, pc, mission, disturbances, T, t, positions, actions,
          observation_t, result, trace, entry, first, runs, direct>>

(***************************************************************************)
(* class Submarine                                                         *)
(***************************************************************************)
Submarine_init ==
    [mass |-> R(1), drag |-> Rat(1, 10), actuator_gain |-> R(1), dt |-> R(1),
     pos_x |-> R(0), pos_y |-> R(0), vel_x |-> R(1), vel_y |-> R(0)]

\* transition that moves the depth with the velocity it has just computed
transition_new_velocity(self, action, disturbance) ==
    LET px == RAdd(self.pos_x, RMul(self.vel_x, self.dt))
        force_y == RAdd(RMul(RNeg(self.drag), self.vel_y),
                        RMul(self.actuator_gain, RAdd(action, disturbance)))
        acc_y == RDiv(force_y, self.mass)
        vy == RAdd(self.vel_y, RMul(acc_y, self.dt))
        py == RAdd(self.pos_y, RMul(vy, self.dt))
    IN  [self EXCEPT !.pos_x = px, !.pos_y = py, !.vel_y = vy]

\* transition that lets the drag act on the along-track velocity too
transition_drags_x(self, action, disturbance) ==
    LET px == RAdd(self.pos_x, RMul(self.vel_x, self.dt))
        py == RAdd(self.pos_y, RMul(self.vel_y, self.dt))
        force_y == RAdd(RMul(RNeg(self.drag), self.vel_y),
                        RMul(self.actuator_gain, RAdd(action, disturbance)))
        acc_y == RDiv(force_y, self.mass)
        vy == RAdd(self.vel_y, RMul(acc_y, self.dt))
        vx == RSub(self.vel_x, RMul(RMul(self.drag, self.vel_x), self.dt))
    IN  [self EXCEPT !.pos_x = px, !.pos_y = py, !.vel_x = vx, !.vel_y = vy]

transition(self, action, disturbance) ==
    LET px == RAdd(self.pos_x, RMul(self.vel_x, self.dt))
        py == RAdd(self.pos_y, RMul(self.vel_y, self.dt))
        force_y == RAdd(RMul(RNeg(self.drag), self.vel_y),
                        RMul(self.actuator_gain, RAdd(action, disturbance)))
        acc_y == RDiv(force_y, self.mass)
        vy == RAdd(self.vel_y, RMul(acc_y, self.dt))
    IN  [self EXCEPT !.pos_x = px, !.pos_y = py, !.vel_y = vy]

\* get_depth that reports the depth the next transition will reach
get_depth_ahead(self) == RAdd(self.pos_y, RMul(self.vel_y, self.dt))

get_depth(self) == self.pos_y

get_position(self) == <<self.pos_x, self.pos_y>>

\* reset_state that forgets the depth and the depth velocity
reset_state_keeps_depth(self) ==
    [self EXCEPT !.pos_x = R(0), !.vel_x = R(1)]

reset_state(self) ==
    [self EXCEPT !.pos_x = R(0), !.pos_y = R(0), !.vel_x = R(1), !.vel_y = R(0)]

(***************************************************************************)
(* class Trajectory                                                        *)
(***************************************************************************)
Trajectory(position) == [kind |-> "Trajectory", position |-> position]

(***************************************************************************)
(* class Control                                                           *)
(***************************************************************************)
\* a Control that starts with a previous error of 1
Control_init_stale ==
    [Kp |-> Rat(15, 100), Kd |-> Rat(6, 10), previous_error |-> R(1),
     current_error |-> NoValue]

Control_init ==
    [Kp |-> Rat(15, 100), Kd |-> Rat(6, 10), previous_error |-> R(0),
     current_error |-> NoValue]

\* controller that forgets to store the error it computed
controller_keeps_previous(self, tt, m, obs) ==
    LET current_error == RSub(m.reference[tt + 1], obs)
        u_t == RAdd(RMul(self.Kp, current_error),
                    RMul(self.Kd, RSub(current_error, self.previous_error)))
    IN  [u_t |-> u_t, self |-> [self EXCEPT !.current_error = current_error]]

\* controller that computes with the literals 0.15 and 0.6, not its gains
controller_literal_gains(self, tt, m, obs) ==
    LET current_error == RSub(m.reference[tt + 1], obs)
        u_t == RAdd(RMul(Rat(15, 100), current_error),
                    RMul(Rat(6, 10), RSub(current_error, self.previous_error)))
    IN  [u_t |-> u_t,
         self |-> [self EXCEPT !.current_error = current_error,
                               !.previous_error = current_error]]

\* controller without the derivative term
controller_no_derivative(self, tt, m, obs) ==
    LET current_error == RSub(m.reference[tt + 1], obs)
        u_t == RMul(self.Kp, current_error)
    IN  [u_t |-> u_t,
         self |-> [self EXCEPT !.current_error = current_error,
                               !.previous_error = current_error]]

\* Control.controller: index tt is 0-based as in the program
\* controller that keeps its error in the derivative gain
controller_clobbers_gain(self, tt, m, obs) ==
    LET current_error == RSub(m.reference[tt + 1], obs)
        u_t == RAdd(RMul(self.Kp, current_error),
                    RMul(self.Kd, RSub(current_error, self.previous_error)))
    IN  [u_t |-> u_t,
         self |-> [self EXCEPT !.current_error = current_error,
                               !.previous_error = current_error,
                               !.Kd = current_error]]

controller(self, tt, m, obs) ==
    LET current_error == RSub(m.reference[tt + 1], obs)
        u_t == RAdd(RMul(self.Kp, current_error),
                    RMul(self.Kd, RSub(current_error, self.previous_error)))
    IN  [u_t |-> u_t,
         self |-> [self EXCEPT !.current_error = current_error,
                               !.previous_error = current_error]]

(***************************************************************************)
(* class ClosedLoop: pieces of simulate                                    *)
(***************************************************************************)
ValueError == [kind |-> "ValueError"]

\* what indexing an array past its end raises
IndexError == [kind |-> "IndexError"]

\* simulate that resets the plant before it checks the lengths
simulate_enter_reset_first(p, m, d) ==
    LET n == Len(m.reference)
    IN  IF Len(d) < n
        THEN [pc |-> "raised", T |-> n, plant |-> reset_state(p),
              result |-> ValueError]
        ELSE [pc |-> "alloc", T |-> n, plant |-> reset_state(p),
              result |-> None]

\* simulate that lets a disturbance sequence one sample short through
simulate_enter_lax(p, m, d) ==
    LET n == Len(m.reference)
    IN  IF Len(d) < n - 1
        THEN [pc |-> "raised", T |-> n, plant |-> p, result |-> ValueError]
        ELSE [pc |-> "alloc", T |-> n, plant |-> p, result |-> None]

\* lines 123-125: T and the length check; the plant is not touched
simulate_enter(p, m, d) ==
    LET n == Len(m.reference)
    IN  IF Len(d) < n
        THEN [pc |-> "raised", T |-> n, plant |-> p, result |-> ValueError]
        ELSE [pc |-> "alloc", T |-> n, plant |-> p, result |-> None]

\* a positions buffer with a row too many
zeros2_long(n) == Const(<<Zero, Zero>>, n + 1)

\* np.zeros((n, 2)) and np.zeros(n)
zeros2(n) == Const(<<Zero, Zero>>, n)

zeros(n) == Const(Zero, n)

\* for t in range(T): the first index, or past the loop when there is none
range_first(n) ==
    IF 0 < n THEN [pc |-> "record", t |-> 0] ELSE [pc |-> "return", t |-> 0]

\* a loop that steps its index by two
range_next_skip(tt, n) ==
    IF tt + 2 < n THEN [pc |-> "record", t |-> tt + 2]
    ELSE [pc |-> "return", t |-> tt]

\* for t in range(T): the index after tt, or past the loop
range_next(tt, n) ==
    IF tt + 1 < n THEN [pc |-> "record", t |-> tt + 1]
    ELSE [pc |-> "return", t |-> tt]

\* an index that reads the sample after disturbances[t]
dist_index_next(tt) == tt + 2

\* line 138: the place of disturbances[t] in the sequence (counted from 1)
dist_index(tt) == tt + 1

\* the statement that follows a statement of the loop body (lines 132-138)
body_next(stmt) ==
    CASE stmt = "record" -> "observe"
      [] stmt = "observe" -> "control"
      [] stmt = "control" -> "actuate"

\* simulate is not executing: before a call, after a return or a raise, and
\* after the caller built fresh objects
Rest == {"idle", "done", "raised", "fresh"}

\* the objects of lines 148-152 with mission m and controller c, no call made
Start(m, c) ==
    /\ plant = Submarine_init
    /\ control = c
    /\ pc = "idle"
    /\ mission = m
    /\ disturbances = NoValue
    /\ T = 0
    /\ t = 0
    /\ positions = NoValue
    /\ actions = NoValue
    /\ observation_t = NoValue
    /\ result = None
    /\ trace = <<>>
    /\ entry = None
    /\ first = None
    /\ runs = "none"
    /\ direct = 0

Init == \E m \in Missions : Start(m, Control_init)

\* a caller calls closed_loop.simulate(mission, d): lines 123-125
SimulateCall(d) ==
    /\ pc \in Rest
    /\ runs # "two"
    /\ LET e == simulate_enter(plant, mission, d)
       IN  /\ pc' = e.pc
           /\ T' = e.T
           /\ plant' = e.plant
           /\ result' = e.result
    /\ disturbances' = d
    /\ t' = 0
    /\ positions' = NoValue
    /\ actions' = NoValue
    /\ observation_t' = NoValue
    /\ trace' = <<>>
    /\ entry' = [kind |-> "entry", plant |-> plant, control |-> control]
    /\ first' = IF pc = "idle" THEN None
                ELSE IF pc = "fresh" THEN first
                ELSE [kind |-> "call", mission |-> mission,
                      disturbances |-> disturbances, result |-> result,
                      plant |-> plant, control |-> control]
    /\ runs' = IF runs = "none" THEN "one" ELSE "two"
    /\ UNCHANGED <<control, mission, direct>>

\* lines 127-131: the buffers, the reset and the loop head
Alloc ==
    /\ pc = "alloc"
    /\ positions' = zeros2(T)
    /\ actions' = zeros(T)
    /\ plant' = reset_state(plant)
    /\ LET h == range_first(T)
       IN  pc' = h.pc /\ t' = h.t
    /\ trace' = Append(trace, <<"reset">>)
    /\ UNCHANGED <<control, mission, disturbances, T, observation_t, result,
                   entry, first, runs, direct>>

\* line 132
Record ==
    /\ pc = "record"
    /\ positions' = [positions EXCEPT ![t + 1] = get_position(plant)]
    /\ pc' = body_next("record")
    /\ trace' = Append(trace, <<"record", t>>)
    /\ UNCHANGED <<plant, control, mission, disturbances, T, t, actions,
                   observation_t, result, entry, first, runs, direct>>

\* line 133
Observe ==
    /\ pc = "observe"
    /\ observation_t' = get_depth(plant)
    /\ pc' = body_next("observe")
    /\ trace' = Append(trace, <<"observe", t>>)
    /\ UNCHANGED <<plant, control, mission, disturbances, T, t, positions,
                   actions, result, entry, first, runs, direct>>

\* line 136
Compute ==
    /\ pc = "control"
    /\ LET c == controller(control, t, mission, observation_t)
       IN  /\ actions' = [actions EXCEPT ![t + 1] = c.u_t]
           /\ control' = c.self
    /\ pc' = body_next("control")
    /\ trace' = Append(trace, <<"control", t>>)
    /\ UNCHANGED <<plant, mission, disturbances, T, t, positions,
                   observation_t, result, entry, first, runs, direct>>

\* line 138 and the loop's step to the next index; reading disturbances
\* past its end raises IndexError out of simulate
Actuate ==
    /\ pc = "actuate"
    /\ LET i == dist_index(t)
       IN  IF i \in DOMAIN disturbances
           THEN /\ plant' = transition(plant, actions[t + 1], disturbances[i])
                /\ LET h == range_next(t, T)
                   IN  pc' = h.pc /\ t' = h.t
                /\ trace' = Append(trace, <<"transition", t, disturbances[i]>>)
                /\ UNCHANGED result
           ELSE /\ pc' = "raised"
                /\ result' = IndexError
                /\ UNCHANGED <<plant, t, trace>>
    /\ UNCHANGED <<control, mission, disturbances, T, positions, actions,
                   observation_t, entry, first, runs, direct>>

\* line 140
Return ==
    /\ pc = "return"
    /\ result' = Trajectory(positions)
    /\ pc' = "done"
    /\ UNCHANGED <<plant, control, mission, disturbances, T, t, positions,
                   actions, observation_t, trace, entry, first, runs, direct>>

\* a caller calls sub.transition(a, d) outside simulate
PlantTransition(a, d) ==
    /\ pc \in Rest
    /\ direct < MaxDirect
    /\ plant' = transition(plant, a, d)
    /\ pc' = "idle"
    /\ direct' = direct + 1
    /\ UNCHANGED <<control, mission, disturbances, T, t, positions, actions,
                   observation_t, result, trace, entry, first, runs>>

\* a caller calls sub.reset_state() outside simulate
PlantReset ==
    /\ pc \in Rest
    /\ direct < MaxDirect
    /\ plant' = reset_state(plant)
    /\ pc' = "idle"
    /\ direct' = direct + 1
    /\ UNCHANGED <<control, mission, disturbances, T, t, positions, actions,
                   observation_t, result, trace, entry, first, runs>>

\* a caller that has a trajectory builds a new Submarine, Control and
\* ClosedLoop and loads a mission m of the same length (lines 148-152 again),
\* keeping what the first run gave
Fresh(m) ==
    /\ pc = "done"
    /\ runs = "one"
    /\ Len(m.reference) = Len(mission.reference)
    /\ plant' = Submarine_init
    /\ control' = Control_init
    /\ mission' = m
    /\ first' = [kind |-> "call", mission |-> mission,
                 disturbances |-> disturbances, result |-> result,
                 plant |-> plant, control |-> control]
    /\ pc' = "fresh"
    /\ UNCHANGED <<disturbances, T, t, positions, actions, observation_t,
                   result, trace, entry, runs, direct>>

\* a sample array that is one sample short
random_normal_short(n) == SeqsOf(DistVals, n - 1)

\* line 144: the arrays np.random.normal(0, variance, n) can return
random_normal(n) == SeqsOf(DistVals, n)

\* a caller calls closed_loop.simulate_with_random_disturbances(mission):
\* lines 144-145, then simulate's lines 123-125
SimulateWithRandomDisturbances ==
    \E d \in random_normal(Len(mission.reference)) : SimulateCall(d)

Next ==
    \/ \E d \in Disturbances(Len(mission.reference)) : SimulateCall(d)
    \/ Alloc
    \/ Record
    \/ Observe
    \/ Compute
    \/ Actuate
    \/ Return
    \/ \E a \in ActVals : PlantTransition(a, Zero)
    \/ PlantReset

Spec == Init /\ [][Next]_vars

\* every simulate call is made through simulate_with_random_disturbances
NextRandom ==
    \/ SimulateWithRandomDisturbances
    \/ Alloc
    \/ Record
    \/ Observe
    \/ Compute
    \/ Actuate
    \/ Return
    \/ \E a \in ActVals : PlantTransition(a, Zero)
    \/ PlantReset

SpecRandom == Init /\ [][NextRandom]_vars

\* a caller runs simulate once, builds fresh objects with a mission of the
\* same length and runs simulate on them: two runs from one initial state
NextPair ==
    \/ \E d \in Disturbances(Len(mission.reference)) :
           (runs = "none" \/ pc = "fresh") /\ SimulateCall(d)
    \/ Alloc
    \/ Record
    \/ Observe
    \/ Compute
    \/ Actuate
    \/ Return
    \/ \E m \in Missions : Fresh(m)

SpecPair == Init /\ [][NextPair]_vars

\* the same program run on any mission its constructor accepts
InitShapes == \E m \in MissionsAnyShape : Start(m, Control_init)

SpecShapes == InitShapes /\ [][Next]_vars

\* a caller sets controller.Kp = 0 and controller.Kd = 0 before its calls
InitZeroGains ==
    \E m \in Missions :
        Start(m, [Control_init EXCEPT !.Kp = R(0), !.Kd = R(0)])

SpecZeroGains == InitZeroGains /\ [][Next]_vars

(***************************************************************************)
(* Properties                                                              *)
(***************************************************************************)
\* a simulate call is running or has just ended, so its arguments are set
InCall == pc \notin {"idle", "fresh"}

\* the running or just ended call was given too few disturbances
TooShort == Len(disturbances) < Len(mission.reference)

\* the plant is as reset_state() leaves it
PlantIsReset ==
    /\ plant.pos_x = R(0)
    /\ plant.pos_y = R(0)
    /\ plant.vel_x = R(1)
    /\ plant.vel_y = R(0)

\* C1 (as claimed): a simulate call that directly follows a successful
\* simulate call on the same ClosedLoop, with the same mission and the same
\* disturbances, returns the same trajectory.
C1_RepeatGivesSameTrajectory ==
    (/\ pc = "done"
     /\ first.kind = "call"
     /\ first.result.kind = "Trajectory"
     /\ first.disturbances = disturbances)
        => result = first.result

\* C2: a call with at least T disturbances does not raise, and what it returns
\* is a Trajectory of exactly T = len(mission.reference) pairs.
C2_TrajectoryHasLengthT ==
    /\ (InCall /\ ~TooShort) => pc # "raised"
    /\ pc = "done" =>
          /\ result.kind = "Trajectory"
          /\ Len(result.position) = Len(mission.reference)
          /\ \A i \in 1..Len(result.position) : Len(result.position[i]) = 2

C2_Witness ==
    /\ pc = "done"
    /\ Len(mission.reference) = MaxT
    /\ Len(disturbances) = MaxT + 1

\* C3 (as claimed): after a call that fails the length check the plant is in
\* the state reset_state() sets.
C3_FailedCallLeavesResetPlant ==
    (InCall /\ TooShort) => (pc = "raised" /\ result = ValueError /\ PlantIsReset)

\* C3 (amended): a call with fewer than T disturbances fails with ValueError
\* and leaves the plant's position and velocity as they were before the call.
C3_FailedCallKeepsPlant ==
    (InCall /\ TooShort) =>
        /\ pc = "raised"
        /\ result = ValueError
        /\ plant = entry.plant
        /\ (PlantIsReset <=> entry.plant = reset_state(entry.plant))

C3_Witness ==
    /\ pc = "raised"
    /\ plant.vel_y # Zero
    /\ plant.pos_x # Zero

\* C4: a call with fewer than T disturbances raises before anything changes:
\* no statement of the loop has run, no buffer exists, no Trajectory is
\* returned, and plant and controller are as the call found them.
C4_RaisesBeforeAnyMutation ==
    (InCall /\ TooShort) =>
        /\ pc = "raised"
        /\ trace = <<>>
        /\ positions = NoValue
        /\ actions = NoValue
        /\ result.kind # "Trajectory"
        /\ plant.pos_x = entry.plant.pos_x
        /\ plant.pos_y = entry.plant.pos_y
        /\ plant.vel_x = entry.plant.vel_x
        /\ plant.vel_y = entry.plant.vel_y
        /\ control.previous_error = entry.control.previous_error

C4_Witness ==
    /\ pc = "raised"
    /\ first.kind = "call"
    /\ first.result.kind = "Trajectory"
    /\ control.previous_error # Zero
    /\ plant.pos_y # Zero

\* C5: when step 0 of a call begins the plant is in the reset state, and the
\* first entry of every returned trajectory is (0, 0).
C5_RunStartsFromReset ==
    /\ (pc = "record" /\ t = 0) => PlantIsReset
    /\ pc = "done" => result.position[1] = <<R(0), R(0)>>

C5_Witness ==
    /\ pc = "done"
    /\ entry.plant.pos_y # Zero
    /\ entry.plant.vel_y # Zero

\* C6 (as claimed): in every run the first action is computed against
\* previous_error = 0: action[0] = Kp*e0 + Kd*e0 with e0 = reference[0] - 0.
C6_FirstActionFromZeroError ==
    (pc = "actuate" /\ t = 0) =>
        LET e0 == RSub(mission.reference[1], Zero)
        IN  actions[1] = RAdd(RMul(control.Kp, e0), RMul(control.Kd, e0))

\* the statements a successful run over n time indices executes, in order
ExpectedTrace(n) ==
    [i \in 1..(4 * n + 1) |->
        IF i = 1 THEN <<"reset">>
        ELSE LET k == (i - 2) \div 4
                 j == (i - 2) % 4
             IN  CASE j = 0 -> <<"record", k>>
                   [] j = 1 -> <<"observe", k>>
                   [] j = 2 -> <<"control", k>>
                   [] j = 3 -> <<"transition", k, disturbances[k + 1]>>]

\* C7: a run executes, for t = 0, 1, ..., T-1 in this order, record, observe,
\* control, transition with disturbances[t], each exactly once per index:
\* what has been executed is always a prefix of that sequence, the next
\* statement is the one the sequence names, and a returned run executed all.
C7_StepsInOrder ==
    (InCall /\ ~TooShort /\ pc # "alloc") =>
        /\ Len(trace) <= 4 * T + 1
        /\ trace = SubSeq(ExpectedTrace(T), 1, Len(trace))
        /\ pc \in {"return", "done"} <=> Len(trace) = 4 * T + 1
        /\ pc \in {"record", "observe", "control"} =>
              ExpectedTrace(T)[Len(trace) + 1] = <<pc, t>>
        /\ pc = "actuate" => ExpectedTrace(T)[Len(trace) + 1][1] = "transition"
                             /\ ExpectedTrace(T)[Len(trace) + 1][2] = t

C7_Witness ==
    /\ pc = "done"
    /\ T = MaxT
    /\ Len(trace) = 4 * MaxT + 1
    /\ disturbances[1] # disturbances[MaxT]

\* C8: from the moment positions[t] is recorded until step t's transition is
\* applied, positions[t] is the plant's position; the depth observed for the
\* controller is the depth of positions[t], and the error the controller
\* computed for action[t] is reference[t] minus that depth.
C8_RecordedBeforeActuation ==
    /\ pc \in {"observe", "control", "actuate"} =>
          positions[t + 1] = <<plant.pos_x, plant.pos_y>>
    /\ pc \in {"control", "actuate"} => observation_t = positions[t + 1][2]
    /\ pc = "actuate" =>
          control.current_error =
              RSub(mission.reference[t + 1], positions[t + 1][2])

C8_Witness ==
    /\ pc = "actuate"
    /\ t = 2
    /\ positions[3][2] # Zero
    /\ plant.vel_y # Zero

\* the plant q is what transition(a, d) makes of the plant p
TransitionLaw(p, q, a, d) ==
    /\ q.pos_x = RAdd(p.pos_x, RMul(p.vel_x, p.dt))
    /\ q.pos_y = RAdd(p.pos_y, RMul(p.vel_y, p.dt))
    /\ q.vel_x = p.vel_x
    /\ RMul(RSub(q.vel_y, p.vel_y), p.mass) =
           RMul(RSub(RMul(p.actuator_gain, RAdd(a, d)),
                     RMul(p.drag, p.vel_y)), p.dt)
    /\ \A a2 \in ActVals \cup {a}, d2 \in DistVals \cup {d} :
           transition(p, a2, d2).pos_y = q.pos_y

\* C9: every transition, in a run or called directly, gives x' = x + vx*dt,
\* y' = y + vy*dt with the velocity before the call, and
\* vy' = vy + ((-drag*vy + actuator_gain*(action + disturbance))/mass)*dt;
\* y' is the same for every action and disturbance.
C9_TransitionLaw ==
    [][/\ pc = "actuate" =>
            TransitionLaw(plant, plant', actions[t + 1], disturbances[t + 1])
       /\ (pc \in Rest /\ direct' # direct) =>
            \/ plant' = reset_state(plant)
            \/ \E a \in ActVals : TransitionLaw(plant, plant', a, Zero)]_vars

C9_Witness ==
    /\ pc = "record"
    /\ t = 2
    /\ plant.pos_y # Zero
    /\ plant.vel_y # plant.pos_y
    /\ direct = 1

\* C10: a controller call with stored previous_error p returns
\* Kp*e + Kd*(e - p) for e = reference[t] - observed depth, stores e as
\* previous_error, and leaves Kp and Kd as they were.
C10_ControllerLaw ==
    [][pc = "control" =>
          LET e == RSub(mission.reference[t + 1], observation_t)
          IN  /\ actions'[t + 1] =
                     RSub(RMul(RAdd(control.Kp, control.Kd), e),
                          RMul(control.Kd, control.previous_error))
              /\ control'.previous_error = e
              /\ control'.Kp = control.Kp
              /\ control'.Kd = control.Kd]_vars

C10_Witness ==
    /\ pc = "actuate"
    /\ t = 2
    /\ control.previous_error # Zero
    /\ control.previous_error # R(1)
    /\ actions[3] # Zero
    /\ runs = "two"

\* C11: the along-track velocity is 1 in every state that reset_state,
\* transition and simulate calls reach, and in every run the along-track
\* component of positions[t] is t * vel_x * dt.
C11_AlongTrackVelocityConstant ==
    /\ plant.vel_x = R(1)
    /\ pc \in {"observe", "control", "actuate"} =>
          \A i \in 1..(t + 1) :
              positions[i][1] = RMul(R(i - 1), RMul(plant.vel_x, plant.dt))
    /\ pc = "done" =>
          \A i \in 1..Len(result.position) :
              result.position[i][1] =
                  RMul(R(i - 1), RMul(plant.vel_x, plant.dt))

C11_Witness ==
    /\ pc = "done"
    /\ T = MaxT
    /\ direct = 1
    /\ runs = "two"
    /\ result.position[MaxT][1] = R(MaxT - 1)
    /\ result.position[MaxT][2] # Zero

\* the three sequences of a mission have one length
ShapeOK(m) ==
    /\ Len(m.cave_height) = Len(m.reference)
    /\ Len(m.cave_depth) = Len(m.reference)

\* C12 (as claimed): a mission whose three sequences differ in length is
\* rejected, so simulate gets past its check, runs and returns only on
\* missions of one length T.
C12_UnequalMissionRejected ==
    pc \in {"alloc", "record", "observe", "control", "actuate", "return",
            "done"} => ShapeOK(mission)

\* a run has passed its reset and has not been left by an exception
Running == pc \in {"record", "observe", "control", "actuate", "return", "done"}

\* every disturbance the run applies is 0
QuietRun == \A i \in 1..T : disturbances[i] = Zero

\* C13 (as claimed): with Kp = 0 and Kd = 0 every action of a run is 0 and
\* the plant's depth is 0 at every step of the run.
C13_ZeroGainsKeepDepthZero ==
    Running =>
        /\ \A i \in 1..T : actions[i] = Zero
        /\ plant.pos_y = Zero

\* C13 (amended): with Kp = 0 and Kd = 0 every action of a run is 0 whatever
\* the reference, and in a run whose applied disturbances are all 0 the depth
\* and the depth velocity stay 0.
C13_ZeroGainsZeroActions ==
    Running =>
        /\ \A i \in 1..T : actions[i] = Zero
        /\ QuietRun => (plant.pos_y = Zero /\ plant.vel_y = Zero)

C13_Witness ==
    /\ pc = "done"
    /\ T = MaxT
    /\ QuietRun
    /\ \A i \in 1..T : mission.reference[i] = R(1)
    /\ control.Kp = Zero
    /\ control.previous_error = R(1)
    /\ entry.control.previous_error = R(1)

\* the running or just ended call is the first one and found the plant and
\* the controller as their constructors leave them
FreshRun ==
    /\ runs = "one"
    /\ entry.kind = "entry"
    /\ entry.plant = Submarine_init
    /\ entry.control = Control_init

\* every setpoint of the mission is v
ReferenceIs(v) == \A i \in 1..Len(mission.reference) : mission.reference[i] = v

\* C14: a fresh plant and controller, an all-zero reference and all-zero
\* disturbances: every action is 0, the depth velocity is 0 after every
\* step, positions[t] = (t, 0), and for T = 3 the trajectory is
\* [(0,0), (1,0), (2,0)].
C14_ZeroReferenceEquilibrium ==
    (Running /\ FreshRun /\ ReferenceIs(R(0)) /\ QuietRun) =>
        /\ \A i \in 1..T : actions[i] = Zero
        /\ plant.vel_y = Zero
        /\ plant.pos_y = Zero
        /\ pc \in {"observe", "control", "actuate"} =>
              positions[t + 1] = <<R(t), R(0)>>
        /\ pc = "done" =>
              /\ \A i \in 1..T : result.position[i] = <<R(i - 1), R(0)>>
              /\ T = 3 => result.position =
                     <<<<R(0), R(0)>>, <<R(1), R(0)>>, <<R(2), R(0)>>>>

C14_Witness ==
    /\ pc = "done"
    /\ FreshRun
    /\ ReferenceIs(R(0))
    /\ QuietRun
    /\ T = 3
    /\ Len(disturbances) = 3

\* C15: a fresh plant and controller, an all-one reference and all-zero
\* disturbances: error[0] = 1, action[0] = 0.75, the depth velocity after
\* step 0 is 0.75, positions[1] = (1, 0), the depth after step 1's transition
\* is 0.75, and for T = 3 positions[2] = (2, 0.75).
C15_UnitReferenceScenario ==
    (Running /\ FreshRun /\ ReferenceIs(R(1)) /\ QuietRun) =>
        /\ (pc = "actuate" /\ t = 0) =>
              (control.current_error = R(1) /\ actions[1] = Rat(3, 4))
        /\ (pc = "record" /\ t = 1) => plant.vel_y = Rat(3, 4)
        /\ (pc = "observe" /\ t = 1) => positions[2] = <<R(1), R(0)>>
        /\ (pc = "record" /\ t = 2) => plant.pos_y = Rat(3, 4)
        /\ (pc = "return" /\ T = 2) => plant.pos_y = Rat(3, 4)
        /\ pc = "done" =>
              /\ result.position[1] = <<R(0), R(0)>>
              /\ T >= 2 => result.position[2] = <<R(1), R(0)>>
              /\ T >= 3 => result.position[3] = <<R(2), Rat(3, 4)>>

C15_Witness ==
    /\ pc = "done"
    /\ FreshRun
    /\ ReferenceIs(R(1))
    /\ QuietRun
    /\ T = 3
    /\ result.position[3] = <<R(2), Rat(3, 4)>>

\* C16: a call through simulate_with_random_disturbances hands simulate
\* exactly T disturbances, never fails the length check or any later
\* statement, executes the statements of simulate's loop in its order, and
\* returns a Trajectory of length T.
C16_RandomVariantDelegates ==
    InCall =>
        /\ Len(disturbances) = Len(mission.reference)
        /\ T = Len(mission.reference)
        /\ pc # "raised"
        /\ result.kind \notin {"ValueError", "IndexError"}
        /\ pc # "alloc" => trace = SubSeq(ExpectedTrace(T), 1, Len(trace))
        /\ pc = "done" =>
              /\ result.kind = "Trajectory"
              /\ Len(result.position) = T
              /\ Len(trace) = 4 * T + 1

C16_Witness ==
    /\ pc = "done"
    /\ T = MaxT
    /\ runs = "two"
    /\ disturbances[MaxT] = R(1)
    /\ disturbances[1] = R(0)

\* simulate is straight-line code with one bounded for loop: once called it
\* keeps executing statements until it raises or returns
Statement == Alloc \/ Record \/ Observe \/ Compute \/ Actuate \/ Return

\* a caller that only calls simulate
NextLive ==
    \/ \E d \in Disturbances(Len(mission.reference)) : SimulateCall(d)
    \/ Statement

SpecLive == Init /\ [][NextLive]_vars /\ WF_vars(Statement)

\* two finished runs that both started from freshly built objects: the first
\* is in the caller's record, the second has just returned
Pair ==
    /\ pc = "done"
    /\ runs = "two"
    /\ first.kind = "call"
    /\ first.result.kind = "Trajectory"
    /\ entry.plant = Submarine_init
    /\ entry.control = Control_init

\* the two runs' references and disturbances agree at the indices below k
\* (counted from 0)
AgreeBelow(k) ==
    \A j \in 1..k :
        /\ first.mission.reference[j] = mission.reference[j]
        /\ first.disturbances[j] = disturbances[j]

Min(a, b) == IF a < b THEN a ELSE b

\* C17: two runs from the same initial state whose references and
\* disturbances agree at every index below tt have the same trajectory
\* entries at indices 0..tt+1, and the depth of positions[1] is 0.
C17_TwoStepDelay ==
    /\ Pair =>
          \A tt \in 0..T :
              AgreeBelow(tt) =>
                  \A i \in 1..Min(T, tt + 2) :
                      result.position[i] = first.result.position[i]
    /\ (pc = "done" /\ T >= 2) => result.position[2][2] = Zero

C17_Witness ==
    /\ Pair
    /\ T = 3
    /\ first.mission.reference[1] # mission.reference[1]
    /\ first.disturbances[1] = disturbances[1]
    /\ result.position[2] = first.result.position[2]
    /\ result.position[3] # first.result.position[3]

\* C20: two runs from the same initial state on the same mission whose
\* disturbances agree at the indices 0..T-1, whatever their lengths and later
\* entries, return the same trajectory and leave the plant and the controller
\* in the same state.
C20_LaterDisturbancesUnread ==
    (Pair /\ first.mission = mission /\ AgreeBelow(T)) =>
        /\ result = first.result
        /\ plant = first.plant
        /\ control = first.control

C20_Witness ==
    /\ Pair
    /\ first.mission = mission
    /\ AgreeBelow(T)
    /\ Len(first.disturbances) = T + 1
    /\ Len(disturbances) = T + 1
    /\ first.disturbances # disturbances
    /\ plant.vel_y # Zero

\* C18: no step of the program changes the mission, the plant constants
\* mass, drag, actuator_gain and dt, or the controller gains Kp and Kd, and
\* no step of a running simulate call changes its disturbances argument.
C18_Frame ==
    [][/\ mission' = mission
       /\ plant'.mass = plant.mass
       /\ plant'.drag = plant.drag
       /\ plant'.actuator_gain = plant.actuator_gain
       /\ plant'.dt = plant.dt
       /\ control'.Kp = control.Kp
       /\ control'.Kd = control.Kd
       /\ (pc \notin Rest => disturbances' = disturbances)]_vars

C18_Witness ==
    /\ pc = "done"
    /\ T = MaxT
    /\ plant.pos_y # entry.plant.pos_y
    /\ plant.vel_y # entry.plant.vel_y
    /\ control.previous_error # entry.control.previous_error
    /\ control.Kp = Rat(15, 100)
    /\ control.Kd = Rat(6, 10)

\* loop iterations the running call has completed
Iterations ==
    Cardinality({i \in DOMAIN trace : trace[i][1] = "transition"})

\* C19: a simulate call that has passed the length check reaches its return
\* with T loop iterations done, and no step after the check raises; the only
\* failure is the one at the check.
C19_Terminates ==
    /\ (pc \notin Rest) ~> (pc = "done" /\ Iterations = T)
    /\ [][pc \notin Rest => pc' # "raised"]_vars

C19_Witness ==
    /\ pc = "done"
    /\ runs = "two"
    /\ T = MaxT
    /\ Iterations = T
    /\ result.kind = "Trajectory"
    /\ trace[1] = <<"reset">>

====
